---- MODULE Spec2Model ----
(***************************************************************************)
(* InstanceWrapper (python/example_code/ec2/instance.py): a wrapper that   *)
(* holds an EC2 client handle and at most one tracked instance.  Every     *)
(* method is one synchronous call; the model has one action per method.    *)
(* The provider (EC2 and its waiters) is outside the class: each request's *)
(* outcome is an input of the action, drawn from the outcomes the provider *)
(* can produce.  args, trace, result, log and printed record the last      *)
(* call: its arguments, what it sent to the provider, what it returned or  *)
(* raised, what it logged and what it printed.  lifecycle observes the     *)
(* sequence of create and terminate calls made so far.                     *)
(***************************************************************************)
EXTENDS Integers, Sequences, FiniteSets, TLC

VARIABLES ec2_client, instance, args, trace, result, log, printed, lifecycle

vars == <<ec2_client, instance, args, trace, result, log, printed, lifecycle>>

\* ---------------------------------------------------------------- bounds
NumIds == 2
MaxIndent == 2

\* ------------------------------------------------------- optional values
\* Python's None / a present value, as a sequence of length 0 or 1.
None == <<>>
Some(x) == <<x>>

\* ------------------------------------------------------ provider's values
InstanceIds == { "i-" \o ToString(n) : n \in 1..NumIds }
ImageIds == {"ami-1", "ami-2"}
TypeNames == {"t2.micro", "t3.small"}
KeyNames == {"key-1"}
SecurityGroupArgs == {None, Some(<<>>), Some(<<"sg-1">>)}

\* The element of response["Instances"] that run_instances returns.
InstanceRecord(id, image, instance_type, key_pair) ==
  [InstanceId |-> id, ImageId |-> image, InstanceType |-> instance_type,
   KeyName |-> key_pair]

Instances ==
  { InstanceRecord(id, im, ty, k) :
      id \in InstanceIds, im \in ImageIds, ty \in TypeNames, k \in KeyNames }

\* botocore ClientError: err.response["Error"]["Code"] / ["Message"].
ClientErrors ==
  { [type |-> "ClientError", Code |-> "InvalidAMIID.NotFound",
     Message |-> "The image id does not exist"],
    [type |-> "ClientError", Code |-> "UnauthorizedOperation",
     Message |-> "You are not authorized"] }

\* What a waiter's wait() may raise is the waiter's business: the try blocks
\* enclose the wait, so a ClientError raised there is handled like any other,
\* and every other exception passes through the except clause.
WaiterErrors ==
  { [type |-> "WaiterError", Code |-> "Max attempts exceeded",
     Message |-> "Waiter encountered a terminal failure state"] }

WaitErrors == ClientErrors \cup WaiterErrors

\* Outcome of one provider request.
Ok(response) == [ok |-> TRUE, response |-> Some(response), error |-> None]
Err(e) == [ok |-> FALSE, response |-> None, error |-> Some(e)]

WaitOutcomes == {Ok("waited")} \cup { Err(e) : e \in WaitErrors }

\* One request sent to the provider, with its outcome.
Sent(api, arguments, outcome) ==
  [api |-> api, args |-> arguments, outcome |-> outcome]

\* get_waiter(name).wait(InstanceIds=[id])
Wait(name, id, outcome) ==
  Sent("wait", [waiter |-> name, InstanceIds |-> <<id>>], outcome)

\* ------------------------------------------------------- call's outcome
Returned(op, value) ==
  [op |-> op, kind |-> "returned", value |-> value, error |-> None]
Raised(op, e) ==
  [op |-> op, kind |-> "raised", value |-> None, error |-> Some(e)]

\* logger.error("... Here's why: %s: %s", ..., Code, Message)
ErrorLog(e) == [level |-> "error", Code |-> e.Code, Message |-> e.Message]
\* logger.info("No instance to ...")
InfoLog(what) == [level |-> "info", Code |-> "", Message |-> what]

\* except ClientError as err: log, raise.  Anything else is not caught.
ExceptClientError(e) ==
  IF e.type = "ClientError" THEN <<ErrorLog(e)>> ELSE <<>>

\* The effect of one call: the new tracked instance and what was observed.
Effect(inst, tr, res, lg, pr) ==
  [instance |-> inst, trace |-> tr, result |-> res, log |-> lg, printed |-> pr]

\* Observer of the calls made so far:
\*   "created"     the last create returned, no terminate has returned since;
\*   "terminated"  a terminate returned after that create, and no create was
\*                 called since;
\*   "terminated_again"  as "terminated", and the last call was one more
\*                 terminate;
\*   "none"        otherwise.
Observe(lc, res) ==
  IF res.op = "create"
  THEN (IF res.kind = "returned" THEN "created" ELSE "none")
  ELSE IF res.op = "terminate"
  THEN (IF lc \in {"terminated", "terminated_again"} THEN "terminated_again"
        ELSE IF lc = "created" /\ res.kind = "returned" THEN "terminated"
        ELSE lc)
  ELSE IF lc = "terminated_again" THEN "terminated"
  ELSE lc

Apply(arguments, eff) ==
  /\ args' = arguments
  /\ lifecycle' = Observe(lifecycle, eff.result)
  /\ instance' = eff.instance
  /\ trace' = eff.trace
  /\ result' = eff.result
  /\ log' = eff.log
  /\ printed' = eff.printed
  /\ UNCHANGED ec2_client

\* ----------------------------------------------------------------- create
\* instance_params of create; SecurityGroupIds only when given.
instance_params(image, instance_type, key_pair, security_groups) ==
  [ImageId |-> Some(image), InstanceType |-> Some(instance_type),
   KeyName |-> Some(key_pair), SecurityGroupIds |-> security_groups]

\* The provider's answers to run_instances(**params, MinCount, MaxCount):
\* between MinCount and MaxCount new instances with the requested attributes.
run_instances(params, MinCount, MaxCount) ==
  { Ok([Instances |-> ids_to_instances]) :
      ids_to_instances \in
        UNION { [1..n -> { InstanceRecord(id, params.ImageId[1],
                                          params.InstanceType[1],
                                          params.KeyName[1]) :
                           id \in InstanceIds }] : n \in MinCount..MaxCount } }
  \cup { Err(e) : e \in ClientErrors }

create_mut_store_after_wait(self_instance, image, instance_type, key_pair, security_groups, run, wait) ==
  LET params == instance_params(image, instance_type, key_pair, security_groups)
      request == Sent("run_instances",
                      [params |-> params, MinCount |-> 1, MaxCount |-> 1], run)
  IN IF ~run.ok
     THEN Effect(self_instance, <<request>>, Raised("create", run.error[1]),
                 ExceptClientError(run.error[1]), <<>>)
     ELSE LET new == run.response[1].Instances[1]
              waited == Wait("instance_running", new.InstanceId, wait)
          IN IF ~wait.ok
             THEN Effect(self_instance, <<request, waited>>,
                         Raised("create", wait.error[1]),
                         ExceptClientError(wait.error[1]), <<>>)
             ELSE Effect(Some(new), <<request, waited>>,
                         Returned("create", Some(new.InstanceId)), <<>>, <<>>)

create_mut_untracked_on_success(self_instance, image, instance_type, key_pair, security_groups, run, wait) ==
  LET params == instance_params(image, instance_type, key_pair, security_groups)
      request == Sent("run_instances",
                      [params |-> params, MinCount |-> 1, MaxCount |-> 1], run)
  IN IF ~run.ok
     THEN Effect(self_instance, <<request>>, Raised("create", run.error[1]),
                 ExceptClientError(run.error[1]), <<>>)
     ELSE LET new == run.response[1].Instances[1]
              waited == Wait("instance_running", new.InstanceId, wait)
          IN IF ~wait.ok
             THEN Effect(Some(new), <<request, waited>>,
                         Raised("create", wait.error[1]),
                         ExceptClientError(wait.error[1]), <<>>)
             ELSE Effect(self_instance, <<request, waited>>,
                         Returned("create", Some(new.InstanceId)), <<>>, <<>>)

create_mut_track_before_run(self_instance, image, instance_type, key_pair, security_groups, run, wait) ==
  LET params == instance_params(image, instance_type, key_pair, security_groups)
      request == Sent("run_instances",
                      [params |-> params, MinCount |-> 1, MaxCount |-> 1], run)
      placeholder == InstanceRecord("i-1", image, instance_type, key_pair)
  IN IF ~run.ok
     THEN Effect(Some(placeholder), <<request>>,
                 Raised("create", run.error[1]),
                 ExceptClientError(run.error[1]), <<>>)
     ELSE LET new == run.response[1].Instances[1]
              waited == Wait("instance_running", new.InstanceId, wait)
          IN IF ~wait.ok
             THEN Effect(Some(new), <<request, waited>>,
                         Raised("create", wait.error[1]),
                         ExceptClientError(wait.error[1]), <<>>)
             ELSE Effect(Some(new), <<request, waited>>,
                         Returned("create", Some(new.InstanceId)), <<>>, <<>>)

\* InstanceWrapper.create: run, then track, then wait, then return the id.
create_call(self_instance, image, instance_type, key_pair, security_groups, run, wait) ==
  LET params == instance_params(image, instance_type, key_pair, security_groups)
      request == Sent("run_instances",
                      [params |-> params, MinCount |-> 1, MaxCount |-> 1], run)
  IN IF ~run.ok
     THEN Effect(self_instance, <<request>>, Raised("create", run.error[1]),
                 ExceptClientError(run.error[1]), <<>>)
     ELSE LET new == run.response[1].Instances[1]
              waited == Wait("instance_running", new.InstanceId, wait)
          IN IF ~wait.ok
             THEN Effect(Some(new), <<request, waited>>,
                         Raised("create", wait.error[1]),
                         ExceptClientError(wait.error[1]), <<>>)
             ELSE Effect(Some(new), <<request, waited>>,
                         Returned("create", Some(new.InstanceId)), <<>>, <<>>)

create ==
  \E image \in ImageIds, instance_type \in TypeNames, key_pair \in KeyNames,
     security_groups \in SecurityGroupArgs :
    \E run \in run_instances(
                 instance_params(image, instance_type, key_pair,
                                 security_groups), 1, 1),
       wait \in WaitOutcomes :
      Apply(<<image, instance_type, key_pair, security_groups>>,
            create_call(instance, image, instance_type, key_pair,
                              security_groups, run, wait))

\* -------------------------------------------------------------- terminate
\* The provider's answers to terminate_instances(InstanceIds=[id]).
terminate_instances(id) ==
  { Ok([TerminatingInstances |->
          <<[InstanceId |-> id, CurrentState |-> s]>>]) :
      s \in {"shutting-down", "terminated"} }
  \cup { Err(e) : e \in ClientErrors }

terminate_mut_clear_before_wait(self_instance, req, wait) ==
  IF self_instance = None
  THEN Effect(None, <<>>, Returned("terminate", None),
              <<InfoLog("No instance to terminate.")>>, <<>>)
  ELSE LET instance_id == self_instance[1].InstanceId
           request == Sent("terminate_instances",
                           [InstanceIds |-> <<instance_id>>], req)
           waited == Wait("instance_terminated", instance_id, wait)
       IN IF ~req.ok
          THEN Effect(self_instance, <<request>>,
                      Raised("terminate", req.error[1]),
                      ExceptClientError(req.error[1]), <<>>)
          ELSE IF ~wait.ok
          THEN Effect(None, <<request, waited>>,
                      Raised("terminate", wait.error[1]),
                      ExceptClientError(wait.error[1]), <<>>)
          ELSE Effect(None, <<request, waited>>,
                      Returned("terminate", None), <<>>, <<>>)

terminate_mut_no_guard(self_instance, req, wait) ==
  LET instance_id == IF self_instance = None THEN "i-1"
                     ELSE self_instance[1].InstanceId
      request == Sent("terminate_instances",
                      [InstanceIds |-> <<instance_id>>], req)
      waited == Wait("instance_terminated", instance_id, wait)
  IN IF ~req.ok
     THEN Effect(self_instance, <<request>>,
                 Raised("terminate", req.error[1]),
                 ExceptClientError(req.error[1]), <<>>)
     ELSE IF ~wait.ok
     THEN Effect(self_instance, <<request, waited>>,
                 Raised("terminate", wait.error[1]),
                 ExceptClientError(wait.error[1]), <<>>)
     ELSE Effect(None, <<request, waited>>,
                 Returned("terminate", None), <<>>, <<>>)

\* InstanceWrapper.terminate: request, wait, then clear the reference.
terminate_call(self_instance, req, wait) ==
  IF self_instance = None
  THEN Effect(None, <<>>, Returned("terminate", None),
              <<InfoLog("No instance to terminate.")>>, <<>>)
  ELSE LET instance_id == self_instance[1].InstanceId
           request == Sent("terminate_instances",
                           [InstanceIds |-> <<instance_id>>], req)
           waited == Wait("instance_terminated", instance_id, wait)
       IN IF ~req.ok
          THEN Effect(self_instance, <<request>>,
                      Raised("terminate", req.error[1]),
                      ExceptClientError(req.error[1]), <<>>)
          ELSE IF ~wait.ok
          THEN Effect(self_instance, <<request, waited>>,
                      Raised("terminate", wait.error[1]),
                      ExceptClientError(wait.error[1]), <<>>)
          ELSE Effect(None, <<request, waited>>,
                      Returned("terminate", None), <<>>, <<>>)

terminate ==
  \E req \in terminate_instances(
               IF instance = None THEN "" ELSE instance[1].InstanceId),
     wait \in WaitOutcomes :
    Apply(<<>>, terminate_call(instance, req, wait))

\* ------------------------------------------------------------ start / stop
\* The provider's answers to start_instances(InstanceIds=[id]).
start_instances(id) ==
  { Ok([StartingInstances |->
          <<[InstanceId |-> id, CurrentState |-> s]>>]) :
      s \in {"pending", "running"} }
  \cup { Err(e) : e \in ClientErrors }

\* The provider's answers to stop_instances(InstanceIds=[id]).
stop_instances(id) ==
  { Ok([StoppingInstances |->
          <<[InstanceId |-> id, CurrentState |-> s]>>]) :
      s \in {"stopping", "stopped"} }
  \cup { Err(e) : e \in ClientErrors }

start_mut_no_guard(self_instance, req, wait) ==
  LET id == IF self_instance = None THEN "i-1"
            ELSE self_instance[1].InstanceId
      request == Sent("start_instances", [InstanceIds |-> <<id>>], req)
      waited == Wait("instance_running", id, wait)
  IN IF ~req.ok
     THEN Effect(self_instance, <<request>>, Raised("start", req.error[1]),
                 ExceptClientError(req.error[1]), <<>>)
     ELSE IF ~wait.ok
     THEN Effect(self_instance, <<request, waited>>,
                 Raised("start", wait.error[1]),
                 ExceptClientError(wait.error[1]), <<>>)
     ELSE Effect(self_instance, <<request, waited>>,
                 Returned("start", req.response), <<>>, <<>>)

\* InstanceWrapper.start: request, wait for running, return the response.
start_call(self_instance, req, wait) ==
  IF self_instance = None
  THEN Effect(None, <<>>, Returned("start", None),
              <<InfoLog("No instance to start.")>>, <<>>)
  ELSE LET id == self_instance[1].InstanceId
           request == Sent("start_instances", [InstanceIds |-> <<id>>], req)
           waited == Wait("instance_running", id, wait)
       IN IF ~req.ok
          THEN Effect(self_instance, <<request>>,
                      Raised("start", req.error[1]),
                      ExceptClientError(req.error[1]), <<>>)
          ELSE IF ~wait.ok
          THEN Effect(self_instance, <<request, waited>>,
                      Raised("start", wait.error[1]),
                      ExceptClientError(wait.error[1]), <<>>)
          ELSE Effect(self_instance, <<request, waited>>,
                      Returned("start", req.response), <<>>, <<>>)

start ==
  \E req \in start_instances(
               IF instance = None THEN "" ELSE instance[1].InstanceId),
     wait \in WaitOutcomes :
    Apply(<<>>, start_call(instance, req, wait))

stop_mut_retry(self_instance, req, wait) ==
  IF self_instance = None
  THEN Effect(None, <<>>, Returned("stop", None),
              <<InfoLog("No instance to stop.")>>, <<>>)
  ELSE LET id == self_instance[1].InstanceId
           request == Sent("stop_instances", [InstanceIds |-> <<id>>], req)
           waited == Wait("instance_stopped", id, wait)
       IN IF ~req.ok
          THEN Effect(self_instance, <<request, request>>,
                      Raised("stop", req.error[1]),
                      ExceptClientError(req.error[1]), <<>>)
          ELSE IF ~wait.ok
          THEN Effect(self_instance, <<request, waited>>,
                      Raised("stop", wait.error[1]),
                      ExceptClientError(wait.error[1]), <<>>)
          ELSE Effect(self_instance, <<request, waited>>,
                      Returned("stop", req.response), <<>>, <<>>)

stop_mut_forget(self_instance, req, wait) ==
  IF self_instance = None
  THEN Effect(None, <<>>, Returned("stop", None),
              <<InfoLog("No instance to stop.")>>, <<>>)
  ELSE LET id == self_instance[1].InstanceId
           request == Sent("stop_instances", [InstanceIds |-> <<id>>], req)
           waited == Wait("instance_stopped", id, wait)
       IN IF ~req.ok
          THEN Effect(self_instance, <<request>>,
                      Raised("stop", req.error[1]),
                      ExceptClientError(req.error[1]), <<>>)
          ELSE IF ~wait.ok
          THEN Effect(self_instance, <<request, waited>>,
                      Raised("stop", wait.error[1]),
                      ExceptClientError(wait.error[1]), <<>>)
          ELSE Effect(None, <<request, waited>>,
                      Returned("stop", req.response), <<>>, <<>>)

stop_mut_wait_running(self_instance, req, wait) ==
  IF self_instance = None
  THEN Effect(None, <<>>, Returned("stop", None),
              <<InfoLog("No instance to stop.")>>, <<>>)
  ELSE LET id == self_instance[1].InstanceId
           request == Sent("stop_instances", [InstanceIds |-> <<id>>], req)
           waited == Wait("instance_running", id, wait)
       IN IF ~req.ok
          THEN Effect(self_instance, <<request>>,
                      Raised("stop", req.error[1]),
                      ExceptClientError(req.error[1]), <<>>)
          ELSE IF ~wait.ok
          THEN Effect(self_instance, <<request, waited>>,
                      Raised("stop", wait.error[1]),
                      ExceptClientError(wait.error[1]), <<>>)
          ELSE Effect(self_instance, <<request, waited>>,
                      Returned("stop", req.response), <<>>, <<>>)

\* InstanceWrapper.stop: request, wait for stopped, return the response.
stop_call(self_instance, req, wait) ==
  IF self_instance = None
  THEN Effect(None, <<>>, Returned("stop", None),
              <<InfoLog("No instance to stop.")>>, <<>>)
  ELSE LET id == self_instance[1].InstanceId
           request == Sent("stop_instances", [InstanceIds |-> <<id>>], req)
           waited == Wait("instance_stopped", id, wait)
       IN IF ~req.ok
          THEN Effect(self_instance, <<request>>,
                      Raised("stop", req.error[1]),
                      ExceptClientError(req.error[1]), <<>>)
          ELSE IF ~wait.ok
          THEN Effect(self_instance, <<request, waited>>,
                      Raised("stop", wait.error[1]),
                      ExceptClientError(wait.error[1]), <<>>)
          ELSE Effect(self_instance, <<request, waited>>,
                      Returned("stop", req.response), <<>>, <<>>)

stop ==
  \E req \in stop_instances(
               IF instance = None THEN "" ELSE instance[1].InstanceId),
     wait \in WaitOutcomes :
    Apply(<<>>, stop_call(instance, req, wait))

\* ---------------------------------------------------------------- display
\* The keys display reads from the described instance, in print order, with
\* the label printed before each.
DisplayFields ==
  << <<"ID", "InstanceId">>, <<"Image ID", "ImageId">>,
     <<"Instance type", "InstanceType">>, <<"Key name", "KeyName">>,
     <<"VPC ID", "VpcId">>, <<"Public IP", "PublicIpAddress">>,
     <<"State", "State">> >>

\* A described instance: a key the provider omits (an instance that is not
\* running has no PublicIpAddress) maps to None.
Snapshot(id, public_ip, state) ==
  [InstanceId |-> Some(id), ImageId |-> Some("ami-1"),
   InstanceType |-> Some("t2.micro"), KeyName |-> Some("key-1"),
   VpcId |-> Some("vpc-1"), PublicIpAddress |-> public_ip,
   State |-> Some(state)]

\* The provider's answers to describe_instances(InstanceIds=[id]).
describe_instances(id) ==
  { Ok([Reservations |-> <<>>]),
    Ok([Reservations |->
          <<[Instances |-> <<Snapshot(id, Some("203.0.113.7"), "running")>>]>>]),
    Ok([Reservations |->
          <<[Instances |-> <<Snapshot(id, None, "stopped")>>]>>]) }
  \cup { Err(e) : e \in ClientErrors }

\* ind = "\t" * indent
Indent(indent) == [i \in 1..indent |-> "\t"]

\* The lines printed before the first key the snapshot lacks.
RECURSIVE PrintFields(_, _, _)
PrintFields(ind, snapshot, fields) ==
  IF fields = <<>> \/ snapshot[Head(fields)[2]] = None
  THEN <<>>
  ELSE << <<ind, Head(fields)[1], snapshot[Head(fields)[2]][1]>> >>
       \o PrintFields(ind, snapshot, Tail(fields))

\* InstanceWrapper.display: describe the tracked instance and print it.
display_call(self_instance, indent, req) ==
  IF self_instance = None
  THEN Effect(None, <<>>, Returned("display", None),
              <<InfoLog("No instance to display.")>>, <<>>)
  ELSE LET id == self_instance[1].InstanceId
           request == Sent("describe_instances", [InstanceIds |-> <<id>>], req)
       IN IF ~req.ok
          THEN Effect(self_instance, <<request>>,
                      Raised("display", req.error[1]),
                      ExceptClientError(req.error[1]), <<>>)
          ELSE IF req.response[1].Reservations = <<>>
          THEN Effect(self_instance, <<request>>,
                      Raised("display",
                             [type |-> "IndexError", Code |-> "",
                              Message |-> "list index out of range"]),
                      <<>>, <<>>)
          ELSE LET snapshot == req.response[1].Reservations[1].Instances[1]
                   lines == PrintFields(Indent(indent), snapshot, DisplayFields)
               IN IF Len(lines) < Len(DisplayFields)
                  THEN Effect(self_instance, <<request>>,
                              Raised("display",
                                     [type |-> "KeyError", Code |-> "",
                                      Message |->
                                        DisplayFields[Len(lines) + 1][2]]),
                              <<>>, lines)
                  ELSE Effect(self_instance, <<request>>,
                              Returned("display", None), <<>>, lines)

display ==
  \E indent \in 0..MaxIndent,
     req \in describe_instances(
               IF instance = None THEN "" ELSE instance[1].InstanceId) :
    Apply(<<indent>>, display_call(instance, indent, req))

\* ------------------------------------------------------------- get_images
ImageCatalogue ==
  << [ImageId |-> "ami-1", Architecture |-> "x86_64"],
     [ImageId |-> "ami-2", Architecture |-> "arm64"] >>

ImageIdLists == {<<>>, <<"ami-1">>, <<"ami-1", "ami-2">>, <<"ami-9">>}

\* The provider's answers to describe_images(ImageIds=image_ids).
describe_images(image_ids) ==
  { Ok([Images |-> SubSeq(ImageCatalogue, 1, n)]) :
      n \in 0..Len(ImageCatalogue) }
  \cup { Err(e) : e \in ClientErrors }

\* InstanceWrapper.get_images: return response["Images"].
get_images_call(self_instance, image_ids, req) ==
  LET request == Sent("describe_images", [ImageIds |-> image_ids], req)
  IN IF ~req.ok
     THEN Effect(self_instance, <<request>>,
                 Raised("get_images", req.error[1]),
                 ExceptClientError(req.error[1]), <<>>)
     ELSE Effect(self_instance, <<request>>,
                 Returned("get_images", Some(req.response[1].Images)),
                 <<>>, <<>>)

get_images ==
  \E image_ids \in ImageIdLists :
    \E req \in describe_images(image_ids) :
      Apply(<<image_ids>>, get_images_call(instance, image_ids, req))

\* ----------------------------------------------------- get_instance_types
\* Instance type names are sequences of characters, so that a filter pattern
\* can be matched against them; an architecture is one symbol.
T2Micro == <<"t", "2", ".", "m", "i", "c", "r", "o">>
T3Small == <<"t", "3", ".", "s", "m", "a", "l", "l">>
A1Micro == <<"a", "1", ".", "m", "i", "c", "r", "o">>
T2Large == <<"t", "2", ".", "l", "a", "r", "g", "e">>
A1Medium == <<"a", "1", ".", "m", "e", "d", "i", "u", "m">>

\* The instance types the provider knows, with the architectures of each.
TypeUniverse ==
  << [InstanceType |-> T2Micro, SupportedArchitectures |-> {"i386", "x86_64"}],
     [InstanceType |-> T3Small, SupportedArchitectures |-> {"x86_64"}],
     [InstanceType |-> A1Micro, SupportedArchitectures |-> {"arm64"}],
     [InstanceType |-> T2Large, SupportedArchitectures |-> {"x86_64"}],
     [InstanceType |-> A1Medium, SupportedArchitectures |-> {"arm64"}] >>

Architectures == {"x86_64", "arm64", "i386", "x86_64_mac"}

\* EC2 filter values: "*" matches zero or more characters.
RECURSIVE GlobMatch(_, _)
GlobMatch(pattern, s) ==
  IF pattern = <<>> THEN s = <<>>
  ELSE IF Head(pattern) = "*"
  THEN GlobMatch(Tail(pattern), s) \/ (s # <<>> /\ GlobMatch(pattern, Tail(s)))
  ELSE s # <<>> /\ Head(s) = Head(pattern) /\ GlobMatch(Tail(pattern), Tail(s))

\* The values of the attribute a filter names.
FilterAttribute(name, it) ==
  IF name = "processor-info.supported-architecture"
  THEN { <<a>> : a \in it.SupportedArchitectures }
  ELSE IF name = "instance-type" THEN {it.InstanceType}
  ELSE {}

\* EC2 Filters: a resource passes when every filter has a value matching it.
PassesFilters(Filters, it) ==
  \A i \in 1..Len(Filters) :
    \E j \in 1..Len(Filters[i].Values) :
      \E a \in FilterAttribute(Filters[i].Name, it) :
        GlobMatch(Filters[i].Values[j], a)

\* The types the provider holds: the members of the universe at held.
RECURSIVE Held(_, _)
Held(held, i) ==
  IF i > Len(TypeUniverse) THEN <<>>
  ELSE (IF i \in held THEN <<TypeUniverse[i]>> ELSE <<>>) \o Held(held, i + 1)

\* The provider's answers to describe_instance_types(Filters=...).
describe_instance_types(Filters, held) ==
  LET Passes(it) == PassesFilters(Filters, it)
  IN {Ok([InstanceTypes |-> SelectSeq(Held(held, 1), Passes)])}
     \cup { Err(e) : e \in ClientErrors }

get_instance_types_filters_mut_medium(architecture) ==
  << [Name |-> "processor-info.supported-architecture",
      Values |-> << <<architecture>> >>],
     [Name |-> "instance-type",
      Values |-> << <<"*", ".", "m", "i", "c", "r", "o">>,
                    <<"*", ".", "m", "e", "d", "i", "u", "m">> >>] >>

\* The Filters get_instance_types sends.
get_instance_types_filters(architecture) ==
  << [Name |-> "processor-info.supported-architecture",
      Values |-> << <<architecture>> >>],
     [Name |-> "instance-type",
      Values |-> << <<"*", ".", "m", "i", "c", "r", "o">>,
                    <<"*", ".", "s", "m", "a", "l", "l">> >>] >>

\* InstanceWrapper.get_instance_types: the names of the types in the response.
get_instance_types_call(self_instance, architecture, req) ==
  LET request == Sent("describe_instance_types",
                      [Filters |-> get_instance_types_filters(architecture)],
                      req)
  IN IF ~req.ok
     THEN Effect(self_instance, <<request>>,
                 Raised("get_instance_types", req.error[1]),
                 ExceptClientError(req.error[1]), <<>>)
     ELSE LET types == req.response[1].InstanceTypes
          IN Effect(self_instance, <<request>>,
                    Returned("get_instance_types",
                             Some([i \in 1..Len(types) |->
                                     types[i].InstanceType])),
                    <<>>, <<>>)

get_instance_types ==
  \E architecture \in Architectures, held \in SUBSET (1..Len(TypeUniverse)) :
    \E req \in describe_instance_types(
                 get_instance_types_filters(architecture), held) :
      Apply(<<architecture>>,
            get_instance_types_call(instance, architecture, req))

\* ------------------------------------------------------------ construction
\* InstanceWrapper(ec2_client, instance=None): nothing has been called yet.
Init ==
  /\ ec2_client = "ec2"
  /\ instance \in {None} \cup { Some(i) : i \in Instances }
  /\ args = <<>>
  /\ lifecycle = "none"
  /\ trace = <<>>
  /\ result = Returned("__init__", None)
  /\ log = <<>>
  /\ printed = <<>>

Next == create \/ terminate \/ start \/ stop \/ display \/ get_images
          \/ get_instance_types

Spec == Init /\ [][Next]_vars

\* ================================================================ properties
\* The last call sent nothing to the provider and returned None.
NoRequestNoOp ==
  /\ result.kind = "returned"
  /\ result.value = None
  /\ trace = <<>>

\* C1: when create returns, the tracked instance is the one instance the
\* provider returned for the single run_instances request of that call, its
\* identifier is non-empty, and create returned that identifier.
C1_CreateTracksAndReturnsId ==
  (result.op = "create" /\ result.kind = "returned") =>
    /\ Len(trace) >= 1
    /\ trace[1].api = "run_instances"
    /\ trace[1].args.MinCount = 1 /\ trace[1].args.MaxCount = 1
    /\ \A i \in 2..Len(trace) : trace[i].api # "run_instances"
    /\ trace[1].outcome.ok
    /\ instance = Some(trace[1].outcome.response[1].Instances[1])
    /\ instance[1].InstanceId # ""
    /\ result.value = Some(instance[1].InstanceId)

C1_Witness ==
  /\ result.op = "create" /\ result.kind = "returned"
  /\ instance # None
  /\ result.value = Some(instance[1].InstanceId)

C3_TerminateThenNoOp ==
  /\ lifecycle \in {"terminated", "terminated_again"} => instance = None
  /\ lifecycle = "terminated" /\ result.op = "terminate" =>
       /\ result.kind = "returned"
       /\ Len(trace) = 2 /\ trace[2].outcome.ok
  /\ lifecycle = "terminated_again" =>
       /\ result.op = "terminate"
       /\ NoRequestNoOp

C3_Witness ==
  /\ lifecycle = "terminated_again"
  /\ result.op = "terminate" /\ result.kind = "returned"
  /\ instance = None

\* C4: when no instance is tracked, start, stop, display and terminate do not
\* raise, send neither a request nor a wait, return None and leave the
\* reference unset.
C4_UntrackedIsNoOp ==
  [][(instance = None
      /\ result'.op \in {"start", "stop", "display", "terminate"})
     => /\ result'.kind = "returned"
        /\ result'.value = None
        /\ trace' = <<>>
        /\ instance' = None]_vars

C4_Witness ==
  /\ result.op \in {"start", "stop", "display"}
  /\ NoRequestNoOp
  /\ instance = None
  /\ \E i \in 1..Len(log) : log[i].level = "info"

\* The last call's wait for the terminated state of id reported success.
WaitedTerminated(tr, id) ==
  /\ Len(tr) = 2
  /\ tr[1].api = "terminate_instances" /\ tr[1].outcome.ok
  /\ tr[2].api = "wait" /\ tr[2].args.waiter = "instance_terminated"
  /\ tr[2].args.InstanceIds = <<id>>
  /\ tr[2].outcome.ok

\* C5: when terminate fails on a tracked instance, in the request or in the
\* wait, the caller gets the error and the same instance stays tracked; the
\* reference is cleared only after the wait reported the terminated state.
C5_FailedTerminateKeepsInstance ==
  [][(instance # None /\ result'.op = "terminate")
     => /\ \A i \in 1..Len(trace') :
             ~trace'[i].outcome.ok =>
               /\ result'.kind = "raised"
               /\ result'.error = trace'[i].outcome.error
               /\ instance' = instance
        /\ instance' # instance =>
             /\ instance' = None
             /\ WaitedTerminated(trace', instance[1].InstanceId)]_vars

C5_Witness ==
  /\ result.op = "terminate" /\ result.kind = "raised"
  /\ Len(trace) = 2 /\ ~trace[2].outcome.ok
  /\ instance # None
  /\ trace[1].args.InstanceIds = <<instance[1].InstanceId>>

\* C6: in every operation a failed provider request is the last thing the
\* call sends, and the call raises exactly that error.
C6_FailurePropagatesUnchanged ==
  \A i \in 1..Len(trace) :
    ~trace[i].outcome.ok =>
      /\ i = Len(trace)
      /\ result.kind = "raised"
      /\ result.error = trace[i].outcome.error

C6_Witness ==
  /\ result.op = "get_images" /\ result.kind = "raised"
  /\ Len(trace) = 1 /\ ~trace[1].outcome.ok
  /\ result.error[1].Code = "UnauthorizedOperation"

\* C7: the tracked reference changes only in create, which sets it, and in
\* terminate, which clears it; the client handle never changes.
C7_OnlyCreateAndTerminateChangeReference ==
  [][/\ instance' # instance => result'.op \in {"create", "terminate"}
     /\ (instance' # instance /\ result'.op = "create") => instance' # None
     /\ (instance' # instance /\ result'.op = "terminate") => instance' = None
     /\ ec2_client' = ec2_client]_vars

C7_Witness ==
  /\ result.op = "stop" /\ result.kind = "returned"
  /\ Len(trace) = 2
  /\ instance # None
  /\ trace[1].args.InstanceIds = <<instance[1].InstanceId>>

\* s ends with suffix.
EndsWith(s, suffix) ==
  /\ Len(s) >= Len(suffix)
  /\ SubSeq(s, Len(s) - Len(suffix) + 1, Len(s)) = suffix

\* The architectures of the instance type called name.
ArchitecturesOf(name) ==
  UNION { TypeUniverse[i].SupportedArchitectures :
            i \in { j \in 1..Len(TypeUniverse) :
                      TypeUniverse[j].InstanceType = name } }

\* C8: get_instance_types returns only names of the micro or small size class
\* that support the requested architecture, and returns the empty list, not
\* an error, when the provider finds no match.
C8_OnlyMicroOrSmallOfArchitecture ==
  result.op = "get_instance_types" =>
    /\ result.kind = "returned" =>
         \A i \in 1..Len(result.value[1]) :
           /\ \/ EndsWith(result.value[1][i], <<".", "m", "i", "c", "r", "o">>)
              \/ EndsWith(result.value[1][i], <<".", "s", "m", "a", "l", "l">>)
           /\ args[1] \in ArchitecturesOf(result.value[1][i])
    /\ (trace[1].outcome.ok
        /\ trace[1].outcome.response[1].InstanceTypes = <<>>) =>
         /\ result.kind = "returned"
         /\ result.value = Some(<<>>)

C8_Witness ==
  /\ result.op = "get_instance_types" /\ result.kind = "returned"
  /\ args[1] = "x86_64"
  /\ Len(result.value[1]) = 2

\* The request and the waiter of start, stop and terminate.
RequestOf(op) == op \o "_instances"
WaiterOf(op) ==
  IF op = "start" THEN "instance_running"
  ELSE IF op = "stop" THEN "instance_stopped"
  ELSE "instance_terminated"

\* C9: on a tracked instance, start, stop and terminate send their request
\* for the tracked identifier first; the wait follows only a successful
\* request, for the same identifier and the matching state; start and stop
\* return the request's response only after the wait completed.
C9_RequestThenMatchingWait ==
  [][(instance # None /\ result'.op \in {"start", "stop", "terminate"})
     => /\ Len(trace') \in {1, 2}
        /\ trace'[1].api = RequestOf(result'.op)
        /\ trace'[1].args.InstanceIds = <<instance[1].InstanceId>>
        /\ Len(trace') = 2 <=> trace'[1].outcome.ok
        /\ Len(trace') = 2 =>
             /\ trace'[2].api = "wait"
             /\ trace'[2].args.waiter = WaiterOf(result'.op)
             /\ trace'[2].args.InstanceIds = <<instance[1].InstanceId>>
        /\ (result'.op # "terminate" /\ result'.kind = "returned") =>
             /\ Len(trace') = 2 /\ trace'[2].outcome.ok
             /\ result'.value = trace'[1].outcome.response
             /\ result'.value # None]_vars

C9_Witness ==
  /\ result.op = "stop" /\ result.kind = "returned"
  /\ Len(trace) = 2
  /\ trace[2].args.waiter = "instance_stopped"
  /\ result.value = trace[1].outcome.response

\* C10: when the run request of create succeeds and the wait fails, create
\* raises and the Manager tracks the new instance, whatever it tracked
\* before, and the call sent no termination request.
C10_WaitFailureTracksNewInstance ==
  (result.op = "create" /\ Len(trace) >= 1 /\ trace[1].outcome.ok) =>
    /\ Len(trace) = 2
    /\ trace[2].api = "wait"
    /\ trace[2].args =
         [waiter |-> "instance_running",
          InstanceIds |->
            <<trace[1].outcome.response[1].Instances[1].InstanceId>>]
    /\ instance = Some(trace[1].outcome.response[1].Instances[1])
    /\ \A i \in 1..Len(trace) : trace[i].api # "terminate_instances"
    /\ ~trace[2].outcome.ok =>
         /\ result.kind = "raised"
         /\ result.error = trace[2].outcome.error

C10_Witness ==
  /\ result.op = "create" /\ result.kind = "raised"
  /\ Len(trace) = 2 /\ ~trace[2].outcome.ok
  /\ instance # None
  /\ trace[2].args.InstanceIds = <<instance[1].InstanceId>>
====
